---- MODULE Spec2Model ----
(***************************************************************************)
(* A model of util/input_data.py: the DataSet example pool (next_batch and *)
(* its epoch bookkeeping), the scene composer next_mix_batch and the two   *)
(* bandit simulators random_policy and simulate_logged_bandit.             *)
(*                                                                         *)
(* An image of the corpus is an opaque identifier 1..N; its label is the   *)
(* digit the corpus gives it.  A numpy array of examples is a sequence.    *)
(* Python's None for an optional argument is the empty sequence <<>>, a    *)
(* given value v is <<v>>.  numpy.random draws are inputs of the actions.  *)
(***************************************************************************)
EXTENDS Integers, Sequences, FiniteSets

VARIABLES
    num_examples,      \* self._num_examples
    images,            \* self._images, as the sequence of image identifiers
    labels,            \* self._labels
    container,         \* the Python type behind _images/_labels: "ndarray" or "list"
    one_hot,           \* self.one_hot: "unset" (attribute never assigned), "true", "false"
    epochs_completed,  \* self._epochs_completed
    index_in_epoch,    \* self._index_in_epoch
    sizes,             \* the batch_size arguments the callers of this pool use
    last,              \* the last call: its arguments and what it returned or raised
    ncalls,            \* observer: number of real-path next_batch calls so far, saturating at CallCap
    servedBefore,      \* observer: positions served since the last reshuffle, before the last call's batch
    servedEpoch,       \* observer: positions served since the last reshuffle
    epochCover         \* observer: positions that had been served when the last reshuffle happened

vars == <<num_examples, images, labels, container, one_hot, epochs_completed,
          index_in_epoch, sizes, last, ncalls, servedBefore, servedEpoch,
          epochCover>>

observers == <<ncalls, servedBefore, servedEpoch, epochCover>>

----------------------------------------------------------------------------
(* Bounds of the model *)

\* examples in the small real pool
PoolSize == 3
\* reshuffles (epoch boundaries) explored per run
MaxEpochs == 2
\* the call counter saturates here
CallCap == 3
\* the pool and batch size of the three-call scenario
ScenarioN == 10
ScenarioBatch == 4
\* examples in the pool the scene composer draws from
MixPoolSize == 6
\* examples in the pool behind random_policy
PolicyPoolSize == 10
\* examples in the pool behind simulate_logged_bandit (bsz * num_a fit in it)
LoggedPoolSize == 50

(* Program constants *)

\* MNISTDataSet.bsz
bsz == 16
\* MNISTDataSet.width
width == 45
\* MNISTDataSet.height
height == 45
\* MNISTDataSet.num_a
num_a == 3
\* MNISTDataSet.num_actions
num_actions == 10
\* DataSet.__init__, fake_data branch
FakeNumExamples == 10000
\* length of fake_image and of a flattened 28x28 image
ImageLen == 784
\* next_mix_batch: side of a pasted sub-image
width2 == 14
\* random_policy: the weight H
H == 5

----------------------------------------------------------------------------
(* Helpers *)

Min(a, b) == IF a < b THEN a ELSE b

Max(a, b) == IF a > b THEN a ELSE b

Abs(a) == IF a < 0 THEN -a ELSE a

\* an optional argument: `if x is None: x = default`
Arg(opt, default) == IF opt = <<>> THEN default ELSE opt[1]

\* the label the corpus gives image i (an input of the model)
CorpusLabel(i) == (7 * i) % 10

\* seq[start:end] for 0 <= start, 0 <= end: Python clips a slice to the sequence
SliceShort(seq, start, end) == SubSeq(seq, start + 1, Min(end, Len(seq)) - 1)

Slice(seq, start, end) == SubSeq(seq, start + 1, Min(end, Len(seq)))

\* the positions start..end-1 a slice [start:end] reads
Range(start, end) == start .. (end - 1)

AllPerms(n) == {p \in [1..n -> 1..n] : \A i, j \in 1..n : p[i] = p[j] => i = j}

\* for a larger pool, a few of its permutations: the identity, a rotation and
\* the reversal
PermFamily(n) ==
    { [i \in 1..n |-> i],
      [i \in 1..n |-> (i % n) + 1],
      [i \in 1..n |-> n + 1 - i] }

SmallPerms == AllPerms(PoolSize)

\* what numpy.random.shuffle(perm) can leave in perm: every permutation for the
\* small pool, the family for a larger one
ShufflePerms(n) == IF n = PoolSize THEN SmallPerms ELSE PermFamily(n)

\* array[perm]: entry i of the result is entry perm[i] of the array
Reorder(seq, perm) == [i \in 1..Len(seq) |-> seq[perm[i]]]

\* self._labels = self._labels[perm]
LabelsKept(lbls, perm) == lbls

ShuffleLabels(lbls, perm) == Reorder(lbls, perm)

\* self._images = self._images[perm]
ShuffleImages(imgs, perm) == Reorder(imgs, perm)

----------------------------------------------------------------------------
(* DataSet.__init__ *)

\* DataSet(images, labels) on a corpus of n images
RealPool(n) ==
    [num_examples |-> n,
     images |-> [i \in 1..n |-> i],
     labels |-> [i \in 1..n |-> CorpusLabel(i)],
     container |-> "ndarray",
     one_hot |-> "unset",
     epochs_completed |-> 0,
     index_in_epoch |-> 0]

\* DataSet([], [], fake_data=True, one_hot=oh), as read_data_sets builds it
FakePool(oh) ==
    [num_examples |-> FakeNumExamples,
     images |-> <<>>,
     labels |-> <<>>,
     container |-> "list",
     one_hot |-> IF oh THEN "true" ELSE "false",
     epochs_completed |-> 0,
     index_in_epoch |-> 0]

Self ==
    [num_examples |-> num_examples, images |-> images, labels |-> labels,
     container |-> container, one_hot |-> one_hot,
     epochs_completed |-> epochs_completed, index_in_epoch |-> index_in_epoch]

Store(s) ==
    /\ num_examples' = s.num_examples
    /\ images' = s.images
    /\ labels' = s.labels
    /\ container' = s.container
    /\ one_hot' = s.one_hot
    /\ epochs_completed' = s.epochs_completed
    /\ index_in_epoch' = s.index_in_epoch

----------------------------------------------------------------------------
(* DataSet.next_batch *)

fake_image == [i \in 1..ImageLen |-> 1]

\* fake_label: [1] + [0]*9 when self.one_hot, else 0
FakeLabelLastClass(oh) == IF oh = "true" THEN [i \in 1..10 |-> IF i = 10 THEN 1 ELSE 0] ELSE 0

fake_label(oh) == IF oh = "true" THEN [i \in 1..10 |-> IF i = 1 THEN 1 ELSE 0] ELSE 0

\* `if self._index_in_epoch > self._num_examples`
EpochBoundaryAtEnd(idx, n) == idx >= n

EpochBoundary(idx, n) == idx > n

\* `assert batch_size <= self._num_examples`
BatchFitsStrictly(batch_size, n) == batch_size < n

BatchFits(batch_size, n) == batch_size <= n

\* the outcome of a call: the object afterwards, the exception raised ("none":
\* it returned), and the returned pair
Outcome(s, err, shuffled, X, Y) ==
    [self |-> s, err |-> err, shuffled |-> shuffled, X |-> X, Y |-> Y]

NextBatch(self, batch_size_opt, fake_data, perm) ==
    LET batch_size == Arg(batch_size_opt, bsz)
    IN  IF fake_data
        THEN IF self.one_hot = "unset"
             THEN Outcome(self, "AttributeError", FALSE, <<>>, <<>>)
             ELSE Outcome(self, "none", FALSE,
                          [i \in 1..batch_size |-> fake_image],
                          [i \in 1..batch_size |-> fake_label(self.one_hot)])
        ELSE LET start == self.index_in_epoch
                 idx == start + batch_size
             IN  IF EpochBoundary(idx, self.num_examples)
                 THEN LET s1 == [self EXCEPT !.epochs_completed = @ + 1,
                                             !.index_in_epoch = idx]
                      IN  IF self.container = "list"
                          THEN Outcome(s1, "TypeError", FALSE, <<>>, <<>>)
                          ELSE LET s2 == [s1 EXCEPT
                                            !.images = ShuffleImages(@, perm),
                                            !.labels = ShuffleLabels(@, perm),
                                            !.index_in_epoch = batch_size]
                               IN  IF ~BatchFits(batch_size, self.num_examples)
                                   THEN Outcome(s2, "AssertionError", TRUE, <<>>, <<>>)
                                   ELSE Outcome(s2, "none", TRUE,
                                                Slice(s2.images, 0, batch_size),
                                                Slice(s2.labels, 0, batch_size))
                 ELSE LET s1 == [self EXCEPT !.index_in_epoch = idx]
                      IN  Outcome(s1, "none", FALSE,
                                  Slice(s1.images, start, idx),
                                  Slice(s1.labels, start, idx))

\* numpy.random.shuffle runs only in the epoch-boundary branch of an array pool;
\* elsewhere nothing is drawn
ShuffleDraws(self, batch_size, fake_data) ==
    IF /\ ~fake_data
       /\ self.container = "ndarray"
       /\ EpochBoundary(self.index_in_epoch + batch_size, self.num_examples)
    THEN ShufflePerms(self.num_examples)
    ELSE {<<>>}

\* the slice [start:end] a returning real-path call read
BatchStart(cursor0, shuffled) == IF shuffled THEN 0 ELSE cursor0

----------------------------------------------------------------------------
(* The pool under direct next_batch calls *)

\* the batch_size arguments tried on a real pool of n examples: None, 0..n+1
RealSizes(n) == {<<>>} \cup {<<b>> : b \in 0..(n + 1)}

\* on a fake pool called without the flag: steps that reach the end of the 10000
FakeSizes == {<<3 * (FakeNumExamples \div 10)>>, <<FakeNumExamples \div 2>>,
              <<FakeNumExamples + 1>>}

\* with fake_data=True the batch is built from batch_size alone
FlagSizes == {<<>>, <<0>>, <<1>>, <<2>>}

NoCall ==
    [op |-> "init", batch_size |-> 0, fake_data |-> FALSE, cursor0 |-> 0,
     epochs0 |-> 0, err |-> "none", shuffled |-> FALSE, X |-> <<>>, Y |-> <<>>]

InitObservers ==
    /\ ncalls = 0
    /\ servedBefore = {}
    /\ servedEpoch = {}
    /\ epochCover = {}

InitPool(s, sz) ==
    /\ num_examples = s.num_examples
    /\ images = s.images
    /\ labels = s.labels
    /\ container = s.container
    /\ one_hot = s.one_hot
    /\ epochs_completed = s.epochs_completed
    /\ index_in_epoch = s.index_in_epoch
    /\ sizes = sz
    /\ last = NoCall
    /\ InitObservers

Init ==
    \/ InitPool(RealPool(PoolSize), RealSizes(PoolSize))
    \/ InitPool(RealPool(ScenarioN), {<<ScenarioBatch>>})
    \/ \E oh \in BOOLEAN : InitPool(FakePool(oh), FakeSizes)

NextBatchCall ==
    \E fake_data \in BOOLEAN :
      \E batch_size_opt \in (IF fake_data THEN FlagSizes ELSE sizes) :
        \E perm \in ShuffleDraws(Self, Arg(batch_size_opt, bsz), fake_data) :
         \E r \in {NextBatch(Self, batch_size_opt, fake_data, perm)} :
          LET batch_size == Arg(batch_size_opt, bsz)
              start == BatchStart(index_in_epoch, r.shuffled)
              served == IF r.err = "none" /\ ~fake_data
                        THEN Range(start, start + Len(r.X))
                        ELSE {}
          IN  /\ r.self.epochs_completed <= MaxEpochs
              /\ Store(r.self)
              /\ last' = [op |-> "next_batch", batch_size |-> batch_size,
                          fake_data |-> fake_data, cursor0 |-> index_in_epoch,
                          epochs0 |-> epochs_completed, err |-> r.err,
                          shuffled |-> r.shuffled, X |-> r.X, Y |-> r.Y]
              /\ ncalls' = IF fake_data THEN ncalls ELSE Min(ncalls + 1, CallCap)
              /\ servedBefore' = IF r.shuffled THEN {} ELSE servedEpoch
              /\ servedEpoch' = (IF r.shuffled THEN {} ELSE servedEpoch) \cup served
              /\ epochCover' = IF r.shuffled THEN servedEpoch ELSE epochCover
              /\ UNCHANGED sizes

Next == NextBatchCall

Spec == Init /\ [][Next]_vars

----------------------------------------------------------------------------
(* util.util_funcs: onehot and nhot *)

\* onehot(action): one row per action, a single 1 at the action's class
OneHot(action) ==
    [i \in 1..Len(action) |->
        [k \in 0..(num_actions - 1) |-> IF k = action[i] THEN 1 ELSE 0]]

\* nhot of one scene's labels: a 1 at every class among them
NHot(lbl) ==
    [k \in 0..(num_actions - 1) |-> IF \E n \in 1..Len(lbl) : lbl[n] = k THEN 1 ELSE 0]

----------------------------------------------------------------------------
(* DataSet.next_mix_batch *)

\* np.random.randint(0, max(int(width/3)-width2, 1)): the values it can draw
VertRange(w) == 0 .. (Max((w \div 3) - width2, 1) - 1)

\* np.random.randint(0, height - width2): the values it can draw (none: it raises)
HorRange(h) == 0 .. (h - width2 - 1)

\* `h = hor[n]`
PlaceH(hor_b, n) == hor_b[n + 1]

\* `v = min(vert[n]+width2*n, width-width2)`
PlaceVUnclamped(vert_b, n, w) == vert_b[n + 1] + width2 * n

PlaceV(vert_b, n, w) == Min(vert_b[n + 1] + width2 * n, w - width2)

\* `i = b*NUM + n`, as a position of the 1-based sequences X and Y
Drawn(b, NUM, n) == b * NUM + n + 1

\* `lbl.append(Y[i])` for n in range(NUM)
SceneLabels(Y, b, NUM) == [n \in 1..NUM |-> Y[Drawn(b, NUM, n - 1)]]

\* the canvas of scene b: np.zeros((height, width)) and the blocks pasted into
\* it, in order; block n is the half-scale (width2 x width2) copy of X[i] at
\* rows [h, h+width2), columns [v, v+width2)
SceneCanvas(X, b, NUM, w, h, vert_b, hor_b) ==
    [height |-> h, width |-> w,
     blocks |-> [n \in 1..NUM |->
                    [h |-> PlaceH(hor_b, n - 1),
                     v |-> PlaceV(vert_b, n - 1, w),
                     side |-> width2,
                     digit |-> X[Drawn(b, NUM, n - 1)]]]]

MixOutcome(s, err, IMS, LBLS, hot) ==
    [self |-> s, err |-> err, IMS |-> IMS, LBLS |-> LBLS, hot |-> hot]

\* vert and hor hold, per scene, the three values of each randint draw
NextMixBatch(self, make_hot, bsz_opt, width_opt, height_opt, NUM_opt, perm, vert, hor) ==
    LET nscenes == Arg(bsz_opt, bsz)
        w == Arg(width_opt, width)
        NUM == Arg(NUM_opt, num_a)
        h == Arg(height_opt, height)
        nb == NextBatch(self, <<nscenes * NUM>>, FALSE, perm)
    IN  IF nb.err # "none" THEN MixOutcome(nb.self, nb.err, <<>>, <<>>, <<>>)
        ELSE IF nscenes >= 1 /\ HorRange(h) = {}
        THEN MixOutcome(nb.self, "ValueError", <<>>, <<>>, <<>>)
        ELSE IF nscenes >= 1 /\ NUM > 3
        THEN MixOutcome(nb.self, "IndexError", <<>>, <<>>, <<>>)
        ELSE IF nscenes = 0
        THEN MixOutcome(nb.self, "ValueError", <<>>, <<>>, <<>>)
        ELSE LET IMS == [b \in 1..nscenes |->
                            SceneCanvas(nb.X, b - 1, NUM, w, h, vert[b], hor[b])]
                 LBLS == [b \in 1..nscenes |-> SceneLabels(nb.Y, b - 1, NUM)]
             IN  MixOutcome(nb.self, "none", IMS, LBLS,
                            IF make_hot THEN [b \in 1..nscenes |-> NHot(LBLS[b])]
                            ELSE <<>>)

----------------------------------------------------------------------------
(* DataSet.random_policy *)

\* p[k] for an example of label y, scaled by num_actions * (num_actions - 1):
\* H/(num_actions-1) everywhere, H at the label, all divided by num_actions
Weight(k, y) == IF k = y THEN H * (num_actions - 1) ELSE H

WeightSum(y) == Weight(y, y) + (num_actions - 1) * H

\* np.random.choice(num_actions, p=p) raises ValueError unless p sums to 1
ProbabilitiesSumToOne(y) == WeightSum(y) = num_actions * (num_actions - 1)

\* the actions np.random.choice can return for an example of label y
Choices(y) == {k \in 0..(num_actions - 1) : Weight(k, y) > 0}

\* np.clip(x, lo, hi)
Clip(x, lo, hi) == IF x < lo THEN lo ELSE IF x > hi THEN hi ELSE x

\* `reward = np.clip(2-np.abs(action-y),0,5)`, for one example
RewardFromFive(action, y) == Clip(5 - Abs(action - y), 0, 5)

Reward(action, y) == Clip(2 - Abs(action - y), 0, 5)

\* X[:,::2,::2] of a (bsz,28,28) array: every other row and column of each image
Subsample(X) == [i \in 1..Len(X) |-> [digit |-> X[i], rows |-> 14, cols |-> 14]]

PolicyOutcome(s, err, X, hot, reward, y, action) ==
    [self |-> s, err |-> err, X |-> X, hot |-> hot, reward |-> reward,
     y |-> y, action |-> action]

\* action holds the value np.random.choice returns for each example
RandomPolicy(self, bsz_opt, perm, action) ==
    LET n == Arg(bsz_opt, bsz)
        nb == NextBatch(self, <<n>>, FALSE, perm)
    IN  IF nb.err # "none"
        THEN PolicyOutcome(nb.self, nb.err, <<>>, <<>>, <<>>, <<>>, <<>>)
        ELSE IF \E i \in 1..n : ~ProbabilitiesSumToOne(nb.Y[i])
        THEN PolicyOutcome(nb.self, "ValueError", <<>>, <<>>, <<>>, <<>>, <<>>)
        ELSE PolicyOutcome(nb.self, "none", Subsample(nb.X), OneHot(action),
                           [i \in 1..n |-> Reward(action[i], nb.Y[i])],
                           nb.Y, action)

----------------------------------------------------------------------------
(* DataSet.simulate_logged_bandit *)

\* `if recommend[i] in LBL[i]: reward[i] = 1`
Hit(a, lbl) == IF \E n \in 1..Len(lbl) : lbl[n] = a THEN 1 ELSE 0

BanditOutcome(s, err, IM, hot, reward, LBL, recommend) ==
    [self |-> s, err |-> err, IM |-> IM, hot |-> hot, reward |-> reward,
     LBL |-> LBL, recommend |-> recommend]

\* recommend holds the bsz values of np.random.randint(0, num_actions, (bsz,))
SimulateLoggedBandit(self, bsz_opt, perm, vert, hor, recommend) ==
    LET n == Arg(bsz_opt, bsz)
        mix == NextMixBatch(self, FALSE, <<>>, <<>>, <<>>, <<>>, perm, vert, hor)
    IN  IF mix.err # "none"
        THEN BanditOutcome(mix.self, mix.err, <<>>, <<>>, <<>>, <<>>, <<>>)
        ELSE IF n > Len(mix.LBLS)
        THEN BanditOutcome(mix.self, "IndexError", <<>>, <<>>, <<>>, <<>>, <<>>)
        ELSE BanditOutcome(mix.self, "none", mix.IMS, OneHot(recommend),
                           [i \in 1..n |-> Hit(recommend[i], mix.LBLS[i])],
                           mix.LBLS, recommend)

----------------------------------------------------------------------------
(* The random draws of next_mix_batch, as inputs *)

\* the least and the greatest value of a range
Ends(R) == {x \in R : (x - 1) \notin R \/ (x + 1) \notin R}

\* (3,) draws made of the ends of the range: all low, all high, and the two
\* alternations
Triples(S) ==
    {<<a, a, a>> : a \in S} \cup {<<a, b, a>> : a \in S, b \in S}

Rot3(t, k) == [n \in 1..3 |-> t[((n - 1 + k) % 3) + 1]]

\* one (3,) draw per scene: scene b gets the triple t rotated by b-1.  When the
\* range is empty randint raises and nothing is drawn.
DrawChoices(R, nscenes) ==
    IF R = {} THEN {<<>>}
    ELSE {[b \in 1..nscenes |-> Rot3(t, b - 1)] : t \in Triples(Ends(R))}

\* the same value for every band of every scene
FlatDraws(R, nscenes) ==
    IF R = {} THEN {<<>>}
    ELSE {[b \in 1..nscenes |-> <<a, a, a>>] : a \in Ends(R)}

\* vectors of n actions: c, c+k, c+2k, ... mod num_actions
Progressions(n, C, K) ==
    {[i \in 1..n |-> (c + k * (i - 1)) % num_actions] : c \in C, k \in K}

----------------------------------------------------------------------------
(* The pool under next_mix_batch calls *)

MixCall(make_hot, bsz_opt, w_opt, h_opt, NUM_opt) ==
    [make_hot |-> make_hot, bsz |-> bsz_opt, w |-> w_opt, h |-> h_opt, NUM |-> NUM_opt]

\* canvases one and two pixels larger than a sub-image, and a wide one
Tight == width2 + 1

Narrow == 2 * width2 + 2

Wide == width + width2 + 1

\* the argument lists tried: next_mix_batch(make_hot, bsz, width, height, NUM)
MixCalls ==
    { MixCall(FALSE, <<>>, <<>>, <<>>, <<>>),
      MixCall(FALSE, <<1>>, <<>>, <<>>, <<>>),
      MixCall(TRUE, <<2>>, <<>>, <<>>, <<>>),
      MixCall(FALSE, <<2>>, <<Tight>>, <<Tight>>, <<1>>),
      MixCall(FALSE, <<2>>, <<Tight>>, <<Tight>>, <<>>),
      MixCall(TRUE, <<1>>, <<Narrow>>, <<Tight + 1>>, <<2>>),
      MixCall(FALSE, <<2>>, <<Narrow>>, <<Tight + 1>>, <<>>),
      MixCall(FALSE, <<1>>, <<Wide>>, <<>>, <<>>),
      MixCall(FALSE, <<1>>, <<>>, <<>>, <<num_a + 1>>),
      MixCall(FALSE, <<1>>, <<Wide>>, <<Tight>>, <<num_a + 2>>),
      MixCall(FALSE, <<0>>, <<>>, <<>>, <<>>),
      MixCall(TRUE, <<1>>, <<>>, <<>>, <<0>>),
      MixCall(FALSE, <<1>>, <<>>, <<width2>>, <<>>),
      MixCall(FALSE, <<2>>, <<>>, <<>>, <<num_a + 1>>) }

InitMix == InitPool(RealPool(MixPoolSize), {})

NextMixBatchCall ==
    \E call \in MixCalls :
      LET nscenes == Arg(call.bsz, bsz)
          NUM == Arg(call.NUM, num_a)
          w == Arg(call.w, width)
          h == Arg(call.h, height)
      IN  \E perm \in ShuffleDraws(Self, nscenes * NUM, FALSE),
             vert \in DrawChoices(VertRange(w), nscenes),
             hor \in DrawChoices(HorRange(h), nscenes) :
            \E r \in {NextMixBatch(Self, call.make_hot, call.bsz, call.w, call.h,
                                   call.NUM, perm, vert, hor)} :
              /\ r.self.epochs_completed <= MaxEpochs
              /\ Store(r.self)
              /\ last' = [op |-> "next_mix_batch", bsz |-> nscenes, NUM |-> NUM,
                          width |-> w, height |-> h, make_hot |-> call.make_hot,
                          cursor0 |-> index_in_epoch, err |-> r.err,
                          IMS |-> r.IMS, LBLS |-> r.LBLS, hot |-> r.hot]
              /\ UNCHANGED <<sizes, observers>>

NextMix == NextMixBatchCall

SpecMix == InitMix /\ [][NextMix]_vars

----------------------------------------------------------------------------
(* The pool under random_policy calls *)

PolicySizes == {<<>>, <<1>>, <<2>>}

InitPolicy == InitPool(RealPool(PolicyPoolSize), {})

\* one np.random.choice result per example of the batch: every action for a
\* batch of one, arithmetic progressions mod num_actions for a longer one
ActionDraws(nb) ==
    IF nb.err # "none" THEN {<<>>}
    ELSE {a \in Progressions(Len(nb.Y), 0..(num_actions - 1), 0..1) :
             \A i \in 1..Len(nb.Y) : a[i] \in Choices(nb.Y[i])}

RandomPolicyCall ==
    \E bsz_opt \in PolicySizes :
      \E perm \in ShuffleDraws(Self, Arg(bsz_opt, bsz), FALSE) :
        \E action \in ActionDraws(NextBatch(Self, <<Arg(bsz_opt, bsz)>>, FALSE, perm)) :
          \E r \in {RandomPolicy(Self, bsz_opt, perm, action)} :
            /\ r.self.epochs_completed <= MaxEpochs
            /\ Store(r.self)
            /\ last' = [op |-> "random_policy", bsz |-> Arg(bsz_opt, bsz),
                        cursor0 |-> index_in_epoch, err |-> r.err,
                        X |-> r.X, hot |-> r.hot, reward |-> r.reward,
                        y |-> r.y, action |-> r.action]
            /\ UNCHANGED <<sizes, observers>>

NextPolicy == RandomPolicyCall

SpecPolicy == InitPolicy /\ [][NextPolicy]_vars

----------------------------------------------------------------------------
(* The pool under simulate_logged_bandit calls *)

LoggedSizes == {<<>>, <<1>>, <<2>>, <<bsz + 1>>}

\* the (bsz,) draws of randint(0, num_actions): progressions from every third class
Recommends(n) ==
    Progressions(n, {c \in 0..(num_actions - 1) : c % 3 = 0}, {1})

InitLogged == InitPool(RealPool(LoggedPoolSize), {})

SimulateLoggedBanditCall ==
    \E bsz_opt \in LoggedSizes :
      \E perm \in ShuffleDraws(Self, bsz * num_a, FALSE),
         vert \in FlatDraws(VertRange(width), bsz),
         hor \in FlatDraws(HorRange(height), bsz),
         recommend \in Recommends(Arg(bsz_opt, bsz)) :
        \E r \in {SimulateLoggedBandit(Self, bsz_opt, perm, vert, hor, recommend)} :
          /\ r.self.epochs_completed <= MaxEpochs
          /\ Store(r.self)
          /\ last' = [op |-> "simulate_logged_bandit", bsz |-> Arg(bsz_opt, bsz),
                      cursor0 |-> index_in_epoch, err |-> r.err,
                      IM |-> r.IM, hot |-> r.hot, reward |-> r.reward,
                      LBL |-> r.LBL, recommend |-> r.recommend]
          /\ UNCHANGED <<sizes, observers>>

NextLogged == SimulateLoggedBanditCall

SpecLogged == InitLogged /\ [][NextLogged]_vars

----------------------------------------------------------------------------
(* Claims about the pool under next_batch *)

\* the pool was built from a corpus (not in fake-data mode)
IsReal == container = "ndarray"

\* the last call was next_batch without fake_data=True
RealCall == last.op = "next_batch" /\ ~last.fake_data

Returned == last.err = "none"

\* the positions [LastStart, LastEnd) the last returning real-path call served
LastStart == IF last.shuffled THEN 0 ELSE last.cursor0

LastEnd == LastStart + Len(last.X)

\* C1 as stated: between two consecutive reshuffles the batches of successful
\* calls cover every index of [0,N) exactly once, so when a successful call
\* reshuffles a pool that has served something since the last reshuffle, it has
\* served the whole of [0,N).
C1_EpochCoversPool ==
    (IsReal /\ RealCall /\ Returned /\ last.shuffled /\ epochCover # {})
        => epochCover = Range(0, num_examples)

\* C1 amended: the batches returned between two consecutive reshuffles are full,
\* disjoint, contiguous, sequentially increasing index ranges that together cover
\* a prefix [0,c) of [0,N) exactly once; a reshuffle happens when the next batch
\* does not fit in what is left, and the positions [c,N) are then not served.
C1_EpochCoversPrefix ==
    /\ (IsReal /\ RealCall /\ Returned) =>
          /\ Len(last.X) = last.batch_size
          /\ LastEnd <= num_examples
          /\ \A k \in 1..Len(last.X) : last.X[k] = images[LastStart + k]
          /\ servedBefore = Range(0, LastStart)
          /\ servedEpoch = Range(0, LastEnd)
    /\ (IsReal /\ RealCall /\ last.shuffled) =>
          /\ epochCover = Range(0, Cardinality(epochCover))
          /\ Cardinality(epochCover) <= num_examples
          /\ last.cursor0 + last.batch_size > num_examples
          /\ last.cursor0 <= num_examples => epochCover = Range(0, last.cursor0)
          /\ last.cursor0 > num_examples => epochCover = {}

\* C1 witness: a reshuffle in a run of successful calls that left a tail unserved
C1_Witness ==
    /\ IsReal /\ RealCall /\ Returned /\ last.shuffled
    /\ epochCover # {}
    /\ epochCover # Range(0, num_examples)
    /\ Len(last.X) > 0

\* C2: every position of the pool holds an image with the label the corpus gave
\* it, after any number of reshuffles, and every returned batch pairs each image
\* with its original label.
C2_Alignment ==
    IsReal =>
      /\ Len(images) = Len(labels)
      /\ \A i \in 1..Len(images) : labels[i] = CorpusLabel(images[i])
      /\ (RealCall /\ Returned) =>
            /\ Len(last.X) = Len(last.Y)
            /\ \A i \in 1..Len(last.X) : last.Y[i] = CorpusLabel(last.X[i])

\* C2 witness: a batch returned after two reshuffles, from a pool out of corpus order
C2_Witness ==
    /\ IsReal /\ RealCall /\ Returned /\ last.shuffled
    /\ epochs_completed >= 2
    /\ images # [i \in 1..num_examples |-> i]
    /\ Len(last.X) > 1

\* C3: next_batch with batch_size > N raises at every cursor position and returns
\* no batch; with 0 < batch_size <= N it never raises.
C3_InvalidBatchSize ==
    (IsReal /\ RealCall) =>
      /\ last.batch_size > num_examples =>
            last.err = "AssertionError" /\ last.X = <<>> /\ last.Y = <<>>
      /\ (0 < last.batch_size /\ last.batch_size <= num_examples) => last.err = "none"

\* C3 witness: an oversized request made in the middle of an epoch
C3_Witness ==
    /\ IsReal /\ RealCall
    /\ last.batch_size > num_examples
    /\ last.cursor0 > 0 /\ last.cursor0 < num_examples
    /\ last.err = "AssertionError"

\* C4 as stated: on a pool built in fake-data mode every next_batch call returns
\* only filler values and never an error.
C4_FakePoolAlwaysFiller ==
    (container = "list" /\ last.op = "next_batch") =>
      /\ last.err = "none"
      /\ \A i \in 1..Len(last.X) : last.X[i] = [k \in 1..784 |-> 1]

\* C4 amended: on a pool built in fake-data mode every next_batch call made with
\* fake_data=True returns batch_size copies of the filler image and of the filler
\* label (one-hot of class 0, or the scalar 0), raises nothing and leaves the
\* cursor and the epoch count alone.
C4_FakeFlagFiller ==
    (container = "list" /\ last.op = "next_batch" /\ last.fake_data) =>
      /\ last.err = "none"
      /\ Len(last.X) = last.batch_size
      /\ Len(last.Y) = last.batch_size
      /\ \A i \in 1..Len(last.X) : last.X[i] = [k \in 1..784 |-> 1]
      /\ \A i \in 1..Len(last.Y) :
            last.Y[i] = IF one_hot = "true" THEN <<1, 0, 0, 0, 0, 0, 0, 0, 0, 0>> ELSE 0
      /\ index_in_epoch = last.cursor0
      /\ epochs_completed = last.epochs0

\* C4 witness: a flagged call on a one-hot fake pool whose cursor had moved
C4_Witness ==
    /\ container = "list" /\ last.op = "next_batch" /\ last.fake_data
    /\ one_hot = "true"
    /\ index_in_epoch > 0
    /\ Len(last.X) = 2

\* C9: in every reachable state of a pool, failed calls included, the cursor is
\* in [0,N] and images and labels hold N entries each.
C9_CursorInRange ==
    IsReal =>
      /\ index_in_epoch \in 0..num_examples
      /\ Len(images) = num_examples
      /\ Len(labels) = num_examples

\* the three-call scenario: a pool that takes two batches and not three
Scenario ==
    /\ IsReal /\ RealCall
    /\ num_examples = ScenarioN
    /\ sizes = {<<ScenarioBatch>>}
    /\ 2 * ScenarioBatch <= ScenarioN
    /\ 3 * ScenarioBatch > ScenarioN

\* C10: epochs_completed grows by one in exactly the calls with
\* cursor + batch_size > N; such a call reshuffles, returns positions
\* [0,batch_size) of the new order and leaves cursor = batch_size.  With N = 10
\* and batch_size = 4 the first two calls return [0,4) and [4,8) unshuffled and the
\* third reshuffles, leaving epochs_completed = 1.  (ncalls stops counting at
\* CallCap; the third call is the one that starts in epoch 0.)
C10_EpochBoundary ==
    /\ (IsReal /\ RealCall) =>
          LET crossed == last.cursor0 + last.batch_size > num_examples
          IN  /\ epochs_completed = last.epochs0 + (IF crossed THEN 1 ELSE 0)
              /\ last.shuffled = crossed
              /\ crossed =>
                    /\ index_in_epoch = last.batch_size
                    /\ Returned = (last.batch_size <= num_examples)
                    /\ Returned =>
                          /\ last.X = [k \in 1..last.batch_size |-> images[k]]
                          /\ last.Y = [k \in 1..last.batch_size |-> labels[k]]
              /\ ~crossed =>
                    /\ Returned
                    /\ index_in_epoch = last.cursor0 + last.batch_size
                    /\ last.X = [k \in 1..last.batch_size |-> images[last.cursor0 + k]]
    /\ Scenario =>
          /\ ncalls = 1 =>
                /\ ~last.shuffled /\ epochs_completed = 0
                /\ last.X = [i \in 1..ScenarioBatch |-> i]
          /\ ncalls = 2 =>
                /\ ~last.shuffled /\ epochs_completed = 0
                /\ last.X = [i \in 1..ScenarioBatch |-> ScenarioBatch + i]
          /\ (ncalls = 3 /\ last.epochs0 = 0) =>
                /\ last.cursor0 = 2 * ScenarioBatch
                /\ last.shuffled /\ epochs_completed = 1
                /\ last.X = [k \in 1..ScenarioBatch |-> images[k]]

\* C10 witness: the third call of the scenario, which reshuffled the pool
C10_Witness ==
    /\ Scenario /\ Returned
    /\ ncalls = 3 /\ last.epochs0 = 0
    /\ last.shuffled
    /\ epochs_completed = 1
    /\ images # [i \in 1..num_examples |-> i]

----------------------------------------------------------------------------
(* Claims about random_policy *)

\* C5 as stated: every reward of a random_policy batch is in [0,5] and is exactly
\* 5 where the sampled action equals the true label.
C5_RewardFiveOnMatch ==
    (last.op = "random_policy" /\ Returned) =>
      \A i \in 1..Len(last.reward) :
        /\ last.reward[i] \in 0..5
        /\ last.action[i] = last.y[i] => last.reward[i] = 5

\* C5 amended: every reward of a random_policy batch is in [0,5] and is exactly
\* 2 where the sampled action equals the true label.
C5_RewardTwoOnMatch ==
    (last.op = "random_policy" /\ Returned) =>
      /\ Len(last.reward) = last.bsz
      /\ Len(last.action) = last.bsz
      /\ \A i \in 1..Len(last.reward) :
            /\ last.action[i] \in 0..(num_actions - 1)
            /\ last.y[i] \in 0..(num_actions - 1)
            /\ last.y[i] = CorpusLabel(last.X[i].digit)
            /\ last.reward[i] \in 0..5
            /\ last.action[i] = last.y[i] => last.reward[i] = 2

\* C5 witness: a batch with one action on its label and one far from it
C5_Witness ==
    /\ last.op = "random_policy" /\ Returned
    /\ Len(last.reward) = 2
    /\ last.action[1] = last.y[1]
    /\ Abs(last.action[2] - last.y[2]) > 5
    /\ epochs_completed > 0

----------------------------------------------------------------------------
(* Claims about simulate_logged_bandit *)

\* C6: simulate_logged_bandit(batch_size) returns batch_size scenes with one
\* action in [0,num_actions) and one reward each; every reward is 0 or 1, and is 1
\* exactly when the action is among the scene's component labels.
C6_OneActionPerScene ==
    last.op = "simulate_logged_bandit" =>
      /\ Returned
      /\ Len(last.IM) = last.bsz
      /\ Len(last.recommend) = last.bsz
      /\ Len(last.reward) = last.bsz
      /\ \A i \in 1..Len(last.reward) :
            /\ last.recommend[i] \in 0..(num_actions - 1)
            /\ last.reward[i] \in {0, 1}
            /\ last.reward[i] = 1 <=>
                  \E n \in 1..Len(last.LBL[i]) : last.LBL[i][n] = last.recommend[i]

----------------------------------------------------------------------------
(* Claims about next_mix_batch *)

\* the rows and columns of block k lie inside a canvas of the given size
Inside(k, canvas_width, canvas_height) ==
    /\ 0 <= k.h /\ k.h + k.side <= canvas_height
    /\ 0 <= k.v /\ k.v + k.side <= canvas_width

\* C7: on a canvas wider and higher than a sub-image, every block next_mix_batch
\* pastes is 14x14 and lies inside the canvas: rows [h,h+14) within [0,height),
\* columns [v,v+14) within [0,width).
C7_BlocksInsideCanvas ==
    (last.op = "next_mix_batch" /\ last.width > width2 /\ last.height > width2) =>
      \A b \in 1..Len(last.IMS) :
        /\ last.IMS[b].width = last.width
        /\ last.IMS[b].height = last.height
        /\ \A n \in 1..Len(last.IMS[b].blocks) :
              /\ last.IMS[b].blocks[n].side = 14
              /\ Inside(last.IMS[b].blocks[n], last.width, last.height)

\* C7 witness: two scenes of three blocks on the narrow canvas, a third block
\* clamped to the right edge and drawn at the lowest row randint can give
C7_Witness ==
    /\ last.op = "next_mix_batch" /\ Returned
    /\ last.width = Narrow
    /\ Len(last.IMS) = 2
    /\ \E b \in 1..2 :
          /\ Len(last.IMS[b].blocks) = 3
          /\ last.IMS[b].blocks[3].v = last.width - width2
          /\ last.IMS[b].blocks[3].h = last.height - width2 - 1

\* C8: for any batch_size >= 1 and num_components with
\* batch_size * num_components <= N, num_components > 3 included, next_mix_batch
\* returns batch_size scenes, each with num_components labels in placement order:
\* entry n of scene b is the label of drawn example b*num_components+n, whose
\* image is block n of the scene.
C8_LabelsPerScene ==
    (/\ last.op = "next_mix_batch"
     /\ last.bsz >= 1
     /\ last.width > width2 /\ last.height > width2
     /\ last.bsz * last.NUM <= num_examples) =>
      /\ Returned
      /\ Len(last.IMS) = last.bsz
      /\ Len(last.LBLS) = last.bsz
      /\ \A b \in 1..Len(last.LBLS) :
            /\ Len(last.LBLS[b]) = last.NUM
            /\ Len(last.IMS[b].blocks) = last.NUM
            /\ \A n \in 1..Len(last.LBLS[b]) :
                  LET i == index_in_epoch - last.bsz * last.NUM + (b - 1) * last.NUM + n
                  IN  /\ last.IMS[b].blocks[n].digit = images[i]
                      /\ last.LBLS[b][n] = labels[i]
                      /\ last.LBLS[b][n] = CorpusLabel(images[i])

\* C8 restricted to at most three components, which the code supports
C8_UpToThreeComponents ==
    (last.op = "next_mix_batch" /\ last.NUM <= 3) => C8_LabelsPerScene

====
